---- MODULE Spec2Model ----
(***************************************************************************)
(* Model of the Definite MCP server (src/src/definite_mcp/__init__.py):    *)
(* the transport client (_post_with_retries, make_api_request) and the    *)
(* two MCP tools run_sql_query / run_cube_query with their error           *)
(* normalisation, and the one shared httpx.AsyncClient with the           *)
(* connection pool its limits give it.                                     *)
(*                                                                         *)
(* Python values are tagged records, one payload field per type, so that   *)
(* values of different Python types are never compared field by field:    *)
(*   str -> [ty, str]  int -> [ty, int]  bool -> [ty, bool]  None -> [ty]  *)
(*   list -> [ty, list]  dict -> [ty, dict] (a function from key names)    *)
(* A Python string is a sequence of characters.  The alphabet is small:    *)
(* the phrase "Something went wrong" is one character of it, so that the   *)
(* marker "Something went wrong:" is the two character sequence Marker,    *)
(* and literal pieces of formatted messages are one character each.        *)
(***************************************************************************)
EXTENDS Integers, Sequences, FiniteSets, TLC

\* ------------------------------------------------------------------------
\* Bounds of the model
\* ------------------------------------------------------------------------

\* DEFINITE_RETRIES is drawn from -1 .. MaxRetries (4 is the default)
MaxRetries == 4
\* DEFINITE_BACKOFF_BASE_S is 1 or MaxBase (in units of the default, 0.5 s)
MaxBase == 2
\* longest "message" string of an error body in the normaliser specification
MaxLen == 5
\* number of call slots (coroutines of run_sql_query / run_cube_query)
NCalls == 2
\* DEFINITE_MAX_CONNECTIONS is 0 or MaxConnections when calls come one
\* at a time, from 1 .. NCalls when they are concurrent (50 is the default)
MaxConnections == 1
\* a behaviour starts at most MaxStarted calls
MaxStarted == 2

Calls == 1..NCalls

\* ------------------------------------------------------------------------
\* Python values
\* ------------------------------------------------------------------------

PyStr(s) == [ty |-> "str", str |-> s]
PyInt(n) == [ty |-> "int", int |-> n]
PyBool(b) == [ty |-> "bool", bool |-> b]
PyNone == [ty |-> "NoneType"]
PyList(l) == [ty |-> "list", list |-> l]
PyDict(d) == [ty |-> "dict", dict |-> d]
EmptyDict == [k \in {} |-> PyNone]

\* bool(v)
Truthy(v) ==
  CASE v.ty = "str" -> Len(v.str) > 0
    [] v.ty = "int" -> v.int # 0
    [] v.ty = "bool" -> v.bool
    [] v.ty = "NoneType" -> FALSE
    [] v.ty = "list" -> Len(v.list) > 0
    [] v.ty = "dict" -> DOMAIN v.dict # {}

\* ------------------------------------------------------------------------
\* Strings
\* ------------------------------------------------------------------------

Whitespace == {" "}
Chars == {"Something went wrong", ":", " ", "x"}
Marker == <<"Something went wrong", ":">>

Strings(n) == UNION {[1..k -> Chars] : k \in 0..n}

\* p occurs in s at position i
OccursAt(s, p, i) ==
  /\ i >= 1
  /\ i + Len(p) - 1 <= Len(s)
  /\ \A j \in 1..Len(p) : s[i + j - 1] = p[j]

\* p in s   (str.__contains__)
StrContains(s, p) == \E i \in 1..(Len(s) + 1) : OccursAt(s, p, i)

\* s.find(p) for a p that occurs in s
StrFind(s, p) ==
  CHOOSE i \in 1..(Len(s) + 1) :
    OccursAt(s, p, i) /\ \A j \in 1..(i - 1) : ~OccursAt(s, p, j)

\* s.split(p, 1)[1] for a p that occurs in s: the text after the first occurrence
SplitOnceAfter(s, p) == SubSeq(s, StrFind(s, p) + Len(p), Len(s))

\* s.strip()
Strip(s) ==
  LET keep == {i \in 1..Len(s) : s[i] \notin Whitespace}
  IN  IF keep = {} THEN <<>>
      ELSE SubSeq(s, CHOOSE i \in keep : \A j \in keep : i <= j,
                     CHOOSE i \in keep : \A j \in keep : i >= j)

\* ------------------------------------------------------------------------
\* Response bodies and json.loads
\* ------------------------------------------------------------------------

\* the text of a JSON object whose only key is "message", a string
MessageBody(m) == <<"{\"message\": \"">> \o m \o <<"\"}">>

\* JSON texts without a string message, and what they decode to
JsonLiterals ==
  (<<"{}">> :> PyDict(EmptyDict)) @@
  (<<"{\"data\": []}">> :> PyDict([data |-> PyList(<<>>)])) @@
  (<<"{\"status\": \"failed\", \"error\": \"x\"}">> :>
       PyDict([status |-> PyStr(<<"failed">>), error |-> PyStr(<<"x">>)])) @@
  (<<"{\"message\": null}">> :> PyDict([message |-> PyNone])) @@
  (<<"{\"message\": 5}">> :> PyDict([message |-> PyInt(5)])) @@
  (<<"{\"message\": [\"x\"]}">> :> PyDict([message |-> PyList(<<PyStr(<<"x">>)>>)])) @@
  (<<"{\"message\": [\"Something went wrong:\"]}">> :>
       PyDict([message |-> PyList(<<PyStr(Marker)>>)])) @@
  (<<"{\"message\": {\"detail\": \"x\"}}">> :>
       PyDict([message |-> PyDict([detail |-> PyStr(<<"x">>)])])) @@
  (<<"[]">> :> PyList(<<>>)) @@
  (<<"null">> :> PyNone) @@
  (<<"7">> :> PyInt(7)) @@
  (<<"\"x\"">> :> PyStr(<<"x">>))

\* texts that are not JSON
NonJsonTexts == {<<>>, <<"x">>, <<"<html>">>}

IsMessageBody(t) ==
  /\ Len(t) >= 2
  /\ t[1] = "{\"message\": \""
  /\ t[Len(t)] = "\"}"
  /\ \A i \in 2..(Len(t) - 1) : t[i] \in Chars

\* json.loads(t) raises json.JSONDecodeError unless JsonDecodable(t)
JsonDecodable(t) == IsMessageBody(t) \/ t \in DOMAIN JsonLiterals

\* json.loads(t) for a decodable t
json_loads(t) ==
  IF IsMessageBody(t) THEN PyDict([message |-> PyStr(SubSeq(t, 2, Len(t) - 1))])
  ELSE JsonLiterals[t]

\* every body text of the model whose message string is one of msgs
BodyTexts(msgs) == {MessageBody(m) : m \in msgs} \cup DOMAIN JsonLiterals \cup NonJsonTexts

\* the bodies the backend sends in the main specification: one or two for each
\* way through resp.json() and through the handlers of run_*
SampleMessages == {<<>>, <<"x">>, Marker \o <<" ">>, Marker \o <<" ", "x">>}
SampleTexts ==
  {MessageBody(m) : m \in SampleMessages} \cup
  {<<"{}">>, <<"{\"data\": []}">>, <<"[]">>, <<"{\"message\": 5}">>,
   <<"{\"message\": [\"x\"]}">>, <<"<html>">>, <<>>}

\* httpx.Response: status_code and text
Response(status, text) == [status_code |-> status, text |-> text]
NoResponse == [status_code |-> 0, text |-> <<>>]

\* Response.is_success
is_success(status) == status \in 200..299

StatusCodes == {200, 400, 500}

\* ------------------------------------------------------------------------
\* Exceptions
\* ------------------------------------------------------------------------

\* the classes an instance of cls is an instance of (its MRO, up to Exception)
Mro(cls) ==
  CASE cls \in {"ConnectTimeout", "ReadTimeout", "WriteTimeout", "PoolTimeout"} ->
         {cls, "TimeoutException", "TransportError", "RequestError", "HTTPError", "Exception"}
    [] cls \in {"ConnectError", "ReadError"} ->
         {cls, "NetworkError", "TransportError", "RequestError", "HTTPError", "Exception"}
    [] cls = "RemoteProtocolError" ->
         {cls, "ProtocolError", "TransportError", "RequestError", "HTTPError", "Exception"}
    [] cls = "HTTPStatusError" -> {cls, "HTTPError", "Exception"}
    [] cls = "TimeoutError" -> {cls, "Exception"}
    [] cls = "JSONDecodeError" -> {cls, "ValueError", "Exception"}
    [] OTHER -> {cls, "Exception"}

isinstance(exc, cls) == cls \in Mro(exc.cls)

\* e.__class__.__module__
ClassModule(cls) ==
  CASE cls \in {"ConnectTimeout", "ReadTimeout", "WriteTimeout", "PoolTimeout",
                "ConnectError", "ReadError", "RemoteProtocolError", "HTTPStatusError"} -> "httpx"
    [] cls = "JSONDecodeError" -> "json.decoder"
    [] cls = "gaierror" -> "socket"
    [] OTHER -> "builtins"

\* an exception instance: its class, str(e), the attempt that raised it and,
\* for an HTTPStatusError, e.response
Exc(cls, msg, k) == [cls |-> cls, msg |-> msg, attempt |-> k, response |-> NoResponse]
HTTPStatusError(resp, k) ==
  [cls |-> "HTTPStatusError", msg |-> <<"status error">>, attempt |-> k, response |-> resp]
NoExc == Exc("None", <<>>, 0)

\* the except clause of _post_with_retries
RetryClasses ==
  {"ConnectTimeout", "ConnectError", "ReadTimeout", "RemoteProtocolError",
   "PoolTimeout", "TimeoutError"}

\* mutant: the except clause also catches httpx.HTTPError
RetryableOrStatus(exc) == \E cls \in RetryClasses \cup {"HTTPError"} : isinstance(exc, cls)
\* mutant: the except clause catches httpx.TransportError and asyncio.TimeoutError
RetryableTransportError(exc) == \E cls \in {"TransportError", "TimeoutError"} : isinstance(exc, cls)

\* mutant: the except clause catches the httpx classes only
RetryableNativeOnly(exc) == \E cls \in RetryClasses \ {"TimeoutError"} : isinstance(exc, cls)

Retryable(exc) == \E cls \in RetryClasses : isinstance(exc, cls)

\* classes _HTTP.post / asyncio.wait_for raise in the model
TransportClasses == RetryClasses \cup {"WriteTimeout", "ReadError", "RuntimeError"}
ExcMessages == {<<>>, <<"boom">>}

\* mutant: if attempt > RETRIES: raise
ExhaustedOffByOne(k, retries) == k > retries

\* if attempt >= RETRIES: raise
\* mutant: the loop gives up only when the counter equals the retry count
ExhaustedWhenEqual(k, retries) == k = retries

Exhausted(k, retries) == k >= retries

\* mutant: the backoff is not doubled
NextBackoffConstant(b) == b

\* mutant: the sleep is not awaited
SleepNotAwaited(b) == 0

\* await asyncio.sleep(backoff): the time that passes before the loop goes on
Sleep(b) == b

\* mutant: the backoff is tripled
NextBackoffTripled(b) == 3 * b

\* backoff *= 2.0
NextBackoff(b) == 2 * b

\* ------------------------------------------------------------------------
\* Configuration and process state
\* ------------------------------------------------------------------------

VARIABLES
  RETRIES,          \* int(os.getenv("DEFINITE_RETRIES", "4"))
  BACKOFF_BASE_S,   \* float(os.getenv("DEFINITE_BACKOFF_BASE_S", "0.5")), in units of 0.5 s
  MAX_CONNECTIONS,  \* LIMITS.max_connections: int(os.getenv("DEFINITE_MAX_CONNECTIONS", "50"))
  environ,          \* os.environ: _TABLE_INTEGRATION_ID and _CUBE_INTEGRATION_ID
  HTTP,             \* the module global _HTTP: the client object it is bound to
  clients,          \* number of httpx.AsyncClient objects the process has constructed
  pool,             \* the connection pool of _HTTP: connections open, and idle among them
  DNS_LOGGED,       \* the module global _DNS_LOGGED
  pc,               \* where each call's coroutine is suspended
  frame,            \* the arguments and the payload of each call
  attempt,          \* _post_with_retries: attempt
  backoff,          \* _post_with_retries: backoff
  hist,             \* per call: POSTs sent and ended, time slept, last response and failure,
                    \* the clients its requests were sent on, whether its request in
                    \* flight has a connection
  outcome,          \* per call: what run_sql_query / run_cube_query returned or raised
  started,          \* number of calls of the tools so far
  rids,             \* number of uuid.uuid4() values drawn so far
  sent              \* the X-Request-Id header of every POST sent so far, with its call

vars == <<RETRIES, BACKOFF_BASE_S, MAX_CONNECTIONS, environ, HTTP, clients, pool,
          DNS_LOGGED, pc, frame, attempt, backoff, hist, outcome,
          started, rids, sent>>

API_BASE_URL == "https://api.definite.app"

\* the arguments callers pass
Sqls == {<<"SELECT 1">>, <<"SELECT x">>}
CubeQueries == {PyDict([measures |-> PyList(<<>>)]), PyDict([limit |-> PyInt(10)])}
IntegrationIds == {PyNone, PyStr(<<>>), PyStr(<<"int-1">>)}
Functions == {"run_sql_query", "run_cube_query"}
Arguments(fn) == IF fn = "run_sql_query" THEN {PyStr(q) : q \in Sqls} ELSE CubeQueries

\* os.getenv(name): None when the variable is unset
EnvValues(name) == {PyNone, PyStr(<<name>>)}
\* mutant: both tools read the SQL default
EnvNameShared(fn) == "_TABLE_INTEGRATION_ID"
EnvName(fn) == IF fn = "run_sql_query" THEN "_TABLE_INTEGRATION_ID" ELSE "_CUBE_INTEGRATION_ID"
\* mutant: the defaults are the values found at import (none was set then)
getenv_at_import(name) == PyNone

getenv(name) == environ[name]

\* the key of the payload, and the key that echoes the argument in a failure
PayloadKey(fn) == IF fn = "run_sql_query" THEN "sql" ELSE "cube_query"
\* mutant: both tools echo the argument under "query"
EchoKeyQuery(fn) == "query"
EchoKey(fn) == IF fn = "run_sql_query" THEN "query" ELSE "cube_query"

\* payload assembly of run_sql_query / run_cube_query
BuildPayload(fn, a, integration_id) ==
  LET base == PayloadKey(fn) :> a
  IN  IF Truthy(integration_id) THEN base @@ ("integration_id" :> integration_id)
      ELSE IF Truthy(getenv(EnvName(fn)))
           THEN base @@ ("integration_id" :> getenv(EnvName(fn)))
           ELSE base

\* _timeout_string()
timeout_string ==
  <<"connect: 2s, read: 120s, write: 10s, pool: 2s, attempt_deadline: 15s, retries: ",
    ToString(RETRIES), ", http2: false, trust_env: false">>

\* DEFINITE_API_KEY of this process, and the credentials a process can run with:
\* the module exits at import when the variable is unset or empty
API_KEY == PyStr(<<"key-a">>)
Credentials == {API_KEY, PyStr(<<"key-b">>)}

\* headers["Authorization"]
Authorization(key) == <<"Bearer ">> \o key.str

\* mutant: the credential itself is put into the details
ApiKeyLeaked(key) == key

\* "api_key_configured": bool(API_KEY)
ApiKeyConfigured(key) == PyBool(Truthy(key))

\* _common_request_details(endpoint, payload) in a process whose credential is key
common_request_details_with(key, endpoint, payload) ==
  [url |-> PyStr(<<API_BASE_URL, "/v1/", endpoint>>),
   payload |-> PyDict(payload),
   api_key_configured |-> ApiKeyConfigured(key),
   timeouts |-> PyStr(timeout_string)]

\* _common_request_details(endpoint, payload)
common_request_details(endpoint, payload) ==
  common_request_details_with(API_KEY, endpoint, payload)

\* mutant: every httpx timeout is tagged by its base class first
phase_timeout_first(exc) ==
  IF isinstance(exc, "TimeoutException") THEN "connect_timeout"
  ELSE IF isinstance(exc, "TimeoutError") THEN "attempt_deadline_timeout"
  ELSE IF isinstance(exc, "ConnectError") THEN "connect_error"
  ELSE IF isinstance(exc, "RemoteProtocolError") THEN "protocol_error"
  ELSE exc.cls

\* _phase_for_exception(exc)
\* mutant: a protocol error is tagged as a connection error
phase_protocol_as_connect(exc) ==
  IF isinstance(exc, "ConnectTimeout") THEN "connect_timeout"
  ELSE IF isinstance(exc, "ReadTimeout") THEN "read_timeout"
  ELSE IF isinstance(exc, "PoolTimeout") THEN "pool_timeout"
  ELSE IF isinstance(exc, "TimeoutError") THEN "attempt_deadline_timeout"
  ELSE IF isinstance(exc, "ConnectError") \/ isinstance(exc, "RemoteProtocolError")
       THEN "connect_error"
  ELSE exc.cls

phase_for_exception(exc) ==
  IF isinstance(exc, "ConnectTimeout") THEN "connect_timeout"
  ELSE IF isinstance(exc, "ReadTimeout") THEN "read_timeout"
  ELSE IF isinstance(exc, "PoolTimeout") THEN "pool_timeout"
  ELSE IF isinstance(exc, "TimeoutError") THEN "attempt_deadline_timeout"
  ELSE IF isinstance(exc, "ConnectError") THEN "connect_error"
  ELSE IF isinstance(exc, "RemoteProtocolError") THEN "protocol_error"
  ELSE exc.cls

\* ------------------------------------------------------------------------
\* The shared client and its connection pool
\* ------------------------------------------------------------------------

\* _HTTP = httpx.AsyncClient(...): the first client the process constructs, open
SharedClient == [id |-> 1, is_closed |-> FALSE]

\* mutant: each request is sent on a client constructed for it
RequestClientFresh == clients + 1

\* the client of _HTTP.head(...) and _HTTP.post(...): whatever _HTTP is bound to
RequestClient == HTTP.id

\* max_keepalive_connections=int(os.getenv("DEFINITE_MAX_KEEPALIVE", "20"))
MAX_KEEPALIVE == 20

EmptyPool == [open |-> 0, idle |-> 0]

\* mutant: the client is built without limits=LIMITS
HasRoomUnlimited(n, limit) == TRUE

\* the pool opens another connection only below max_connections
HasRoom(n, limit) == n < limit

\* a request gets a connection at once: an idle one, or a new one
CanAcquire(p) == p.idle > 0 \/ HasRoom(p.open, MAX_CONNECTIONS)
Acquire(p) ==
  IF p.idle > 0 THEN [p EXCEPT !.idle = @ - 1] ELSE [p EXCEPT !.open = @ + 1]

\* the response has been read: the connection is kept alive, or closed when
\* max_keepalive_connections are idle already
ReleaseKeepAlive(p) ==
  IF p.idle < MAX_KEEPALIVE THEN [p EXCEPT !.idle = @ + 1] ELSE [p EXCEPT !.open = @ - 1]

\* the request failed or was cancelled: its connection is closed
ReleaseClosed(p) == [p EXCEPT !.open = @ - 1]

\* ------------------------------------------------------------------------
\* What a call of run_sql_query / run_cube_query ends with
\* ------------------------------------------------------------------------

\* return value, tagged with the return statement that produced it
Returned(via, v) == [kind |-> "return", via |-> via, value |-> v, exc |-> NoExc]
\* an exception that leaves the function
Raises(e) == [kind |-> "raise", via |-> "raise", value |-> PyNone, exc |-> e]
NoOutcome == [kind |-> "none", via |-> "none", value |-> PyNone, exc |-> NoExc]

\* mutant: the success result is wrapped with a status key
SuccessResultWithStatus(body) ==
  Returned("result",
           IF body.ty = "dict" THEN PyDict(body.dict @@ [status |-> PyStr(<<"ok">>)])
           ELSE PyDict([data |-> body, status |-> PyStr(<<"ok">>)]))

\* return result
SuccessResult(body) == Returned("result", body)

\* "Something went wrong:" in msg, for a truthy msg that supports `in`
MarkerIn(msg) ==
  CASE msg.ty = "str" -> StrContains(msg.str, Marker)
    [] msg.ty = "list" -> \E i \in 1..Len(msg.list) : msg.list[i] = PyStr(Marker)
    [] msg.ty = "dict" -> FALSE

\* mutant: the text after the marker is not stripped
ExtractMessageNoStrip(m) ==
  LET rest == SplitOnceAfter(m, Marker)
  IN  IF rest # <<>> THEN rest ELSE m

\* msg.split("Something went wrong:", 1)[1].strip() or msg
ExtractMessage(m) ==
  LET rest == Strip(SplitOnceAfter(m, Marker))
  IN  IF rest # <<>> THEN rest ELSE m

\* mutant: a string message is stripped before it is returned
HttpMessageFailureStripped(fn, a, payload, e, msg) ==
  Returned("http_message",
    PyDict((EchoKey(fn) :> a) @@
           [error |-> IF msg.ty = "str" THEN PyStr(Strip(msg.str)) ELSE msg,
            status |-> PyStr(<<"failed">>),
            http_status |-> PyInt(e.response.status_code),
            request_details |-> PyDict(common_request_details("query", payload))]))

\* the dict returned when a truthy message was found in the error body
\* mutant: the HTTP failure names the exception class too
HttpMessageFailureTyped(fn, a, payload, e, msg) ==
  Returned("http_message",
    PyDict((EchoKey(fn) :> a) @@
           [error |-> msg,
            status |-> PyStr(<<"failed">>),
            http_status |-> PyInt(e.response.status_code),
            exception_type |-> PyStr(<<ClassModule(e.cls), ".", e.cls>>),
            request_details |-> PyDict(common_request_details("query", payload))]))

HttpMessageFailure(fn, a, payload, e, msg) ==
  Returned("http_message",
    PyDict((EchoKey(fn) :> a) @@
           [error |-> msg,
            status |-> PyStr(<<"failed">>),
            http_status |-> PyInt(e.response.status_code),
            request_details |-> PyDict(common_request_details("query", payload))]))

\* the dict returned after the try block of the handler
HttpFallbackFailure(fn, a, payload, e) ==
  Returned("http_fallback",
    PyDict((EchoKey(fn) :> a) @@
           [error |-> PyStr(<<"HTTP ", ToString(e.response.status_code), ": ">>
                            \o e.response.text),
            status |-> PyStr(<<"failed">>),
            request_details |-> PyDict(common_request_details("query", payload))]))

\* except httpx.HTTPStatusError as e
HTTPStatusHandler(fn, a, payload, e) ==
  LET error_detail == e.response.text IN
  IF ~JsonDecodable(error_detail) THEN HttpFallbackFailure(fn, a, payload, e)
  ELSE
    LET error_json == json_loads(error_detail) IN
    IF error_json.ty # "dict"
    THEN Raises(Exc("AttributeError", <<"object has no attribute 'get'">>, e.attempt))
    ELSE
      LET msg == IF "message" \in DOMAIN error_json.dict
                 THEN error_json.dict["message"] ELSE PyStr(<<>>) IN
      IF ~Truthy(msg) THEN HttpFallbackFailure(fn, a, payload, e)
      ELSE IF msg.ty \in {"int", "bool"}
      THEN Raises(Exc("TypeError", <<"argument is not iterable">>, e.attempt))
      ELSE IF ~MarkerIn(msg) THEN HttpMessageFailure(fn, a, payload, e, msg)
      ELSE IF msg.ty # "str"
      THEN Raises(Exc("AttributeError", <<"object has no attribute 'split'">>, e.attempt))
      ELSE HttpMessageFailure(fn, a, payload, e, PyStr(ExtractMessage(msg.str)))

\* mutant: an empty str(e) is replaced by a fixed text
ExceptionHandlerUnknownError(fn, a, payload, e) ==
  LET phase == phase_for_exception(e)
      msg == IF e.msg # <<>> THEN e.msg ELSE <<"Query failed with unknown error">>
  IN  Returned("exception",
        PyDict((EchoKey(fn) :> a) @@
               [error |-> PyStr(msg),
                status |-> PyStr(<<"failed">>),
                exception_type |-> PyStr(<<ClassModule(e.cls), ".", e.cls>>),
                request_details |->
                  PyDict(common_request_details("query", payload) @@
                         [phase |-> PyStr(<<phase>>)])]))

\* mutant: exception_type is the bare class name
ExceptionHandlerBareType(fn, a, payload, e) ==
  LET phase == phase_for_exception(e)
      msg == IF e.msg # <<>> THEN e.msg ELSE <<"Query failed with ", e.cls>>
  IN  Returned("exception",
        PyDict((EchoKey(fn) :> a) @@
               [error |-> PyStr(msg),
                status |-> PyStr(<<"failed">>),
                exception_type |-> PyStr(<<e.cls>>),
                request_details |->
                  PyDict(common_request_details("query", payload) @@
                         [phase |-> PyStr(<<phase>>)])]))

\* except Exception as e
ExceptionHandler(fn, a, payload, e) ==
  LET phase == phase_for_exception(e)
      msg == IF e.msg # <<>> THEN e.msg ELSE <<"Query failed with ", e.cls>>
  IN  Returned("exception",
        PyDict((EchoKey(fn) :> a) @@
               [error |-> PyStr(msg),
                status |-> PyStr(<<"failed">>),
                exception_type |-> PyStr(<<ClassModule(e.cls), ".", e.cls>>),
                request_details |->
                  PyDict(common_request_details("query", payload) @@
                         [phase |-> PyStr(<<phase>>)])]))

\* the except clauses of run_sql_query / run_cube_query around make_api_request
Handle(fn, a, payload, e) ==
  IF isinstance(e, "HTTPStatusError") THEN HTTPStatusHandler(fn, a, payload, e)
  ELSE ExceptionHandler(fn, a, payload, e)

\* ------------------------------------------------------------------------
\* Initial state: the module has been imported, no call is running
\* ------------------------------------------------------------------------

EnvNames == {"_TABLE_INTEGRATION_ID", "_CUBE_INTEGRATION_ID"}
NoFrame == [fn |-> "none", arg |-> PyNone, integration_id |-> PyNone, payload |-> EmptyDict,
            call |-> 0, rid |-> 0]
NoHist == [posts |-> 0, waited |-> 0, response |-> NoResponse, failure |-> NoExc,
           raised |-> NoExc, clients |-> {}, conn |-> FALSE, ended |-> 0,
           dns |-> "none", preflight |-> "none", midbody |-> FALSE]

RetriesValues == -1..MaxRetries
BaseValues == {1, MaxBase}
ConnectionLimits == {0, MaxConnections}

InitWith(limits) ==
  /\ RETRIES \in RetriesValues
  /\ BACKOFF_BASE_S \in BaseValues
  /\ MAX_CONNECTIONS \in limits
  /\ HTTP = SharedClient
  /\ clients = 1
  /\ pool = EmptyPool
  /\ environ \in {e \in [EnvNames -> UNION {EnvValues(n) : n \in EnvNames}] :
                    \A n \in EnvNames : e[n] \in EnvValues(n)}
  /\ DNS_LOGGED = FALSE
  /\ pc = [c \in Calls |-> "idle"]
  /\ frame = [c \in Calls |-> NoFrame]
  /\ attempt = [c \in Calls |-> 0]
  /\ backoff = [c \in Calls |-> 0]
  /\ hist = [c \in Calls |-> NoHist]
  /\ outcome = [c \in Calls |-> NoOutcome]
  /\ started = 0
  /\ rids = 0
  /\ sent = {}

Init == InitWith(ConnectionLimits)

\* ------------------------------------------------------------------------
\* Actions: one per stretch of code between two suspension points
\* ------------------------------------------------------------------------

\* rid = str(uuid.uuid4()): a value that differs from the n values drawn before
uuid4(n) == n + 1

\* mutant: the header is built anew for each attempt
RequestIdPerAttempt(rid, k) == rid + k - 1

\* headers["X-Request-Id"] of attempt k: the headers dict of the call, as built
\* in make_api_request
RequestIdHeader(rid, k) == rid

\* the POST of attempt k of call c goes out with its X-Request-Id
SentWith(c, k) ==
  sent \cup {[call |-> frame[c].call, rid |-> RequestIdHeader(frame[c].rid, k),
              authorization |-> Authorization(API_KEY)]}

\* the request of call c that is in flight waits for a connection of the pool
Waiting(c) == pc[c] \in {"preflight", "post"} /\ ~hist[c].conn

\* a request sent by call c when the pool is p gets a connection at once,
\* unless the pool is exhausted or requests of other calls wait already
ConnectsAtOnce(c, p) == CanAcquire(p) /\ ~\E d \in Calls \ {c} : Waiting(d)
PoolAfterSend(c, p) == IF ConnectsAtOnce(c, p) THEN Acquire(p) ELSE p

\* The one-time DNS step of make_api_request: skipped once _DNS_LOGGED is set;
\* otherwise the host is cut out of API_BASE_URL (no "://" in it: IndexError)
\* and socket.getaddrinfo resolves it or fails.
\* mutant: the flag is not consulted
DnsOutcomesEachCall(logged) == {"resolved", "failed", "no_host"}

DnsOutcomes(logged) == IF logged THEN {"skipped"} ELSE {"resolved", "failed", "no_host"}
DnsError(result) ==
  Exc(IF result = "no_host" THEN "IndexError" ELSE "gaierror", <<"boom">>, 0)

\* mutant: an error of the DNS step leaves make_api_request
DnsRaisesOnFailure(result) == result \in {"failed", "no_host"}

\* whether the DNS step raises into make_api_request: both try blocks
\* (in _resolve_dns_once and around the host extraction) swallow every Exception
DnsRaises(result) == FALSE

\* mutant: the flag is flipped instead of set
DnsLoggedFlipped(logged) == ~logged

\* _DNS_LOGGED after the DNS step of a call that found it with this value:
\* `_DNS_LOGGED = True` when it was not set, untouched otherwise
DnsLoggedAfter(logged) == TRUE

\* The tool is invoked in the lowest free slot: run_* builds the payload,
\* make_api_request builds the headers, logs DNS once and awaits the preflight,
\* which sends HEAD /v1/healthz on _HTTP.
CallWith(c, fn, a, integration_id, dns) ==
  /\ pc[c] = "idle"
  /\ \A d \in Calls : d < c => pc[d] # "idle"
  /\ started < MaxStarted
  /\ started' = started + 1
  /\ rids' = rids + 1
  /\ frame' = [frame EXCEPT ![c] =
                 [fn |-> fn, arg |-> a, integration_id |-> integration_id,
                  payload |-> BuildPayload(fn, a, integration_id),
                  call |-> started + 1, rid |-> uuid4(rids)]]
  /\ dns \in DnsOutcomes(DNS_LOGGED)
  /\ DNS_LOGGED' = DnsLoggedAfter(DNS_LOGGED)
  /\ IF DnsRaises(dns)
     THEN /\ hist' = [hist EXCEPT ![c].dns = dns, ![c].raised = DnsError(dns)]
          /\ outcome' = [outcome EXCEPT ![c] =
                           Handle(fn, a, BuildPayload(fn, a, integration_id), DnsError(dns))]
          /\ pc' = [pc EXCEPT ![c] = "done"]
          /\ UNCHANGED pool
     ELSE /\ hist' = [hist EXCEPT ![c].dns = dns,
                                  ![c].clients = {RequestClient},
                                  ![c].conn = ConnectsAtOnce(c, pool)]
          /\ pool' = PoolAfterSend(c, pool)
          /\ pc' = [pc EXCEPT ![c] = "preflight"]
          /\ UNCHANGED outcome
  /\ UNCHANGED <<RETRIES, BACKOFF_BASE_S, MAX_CONNECTIONS, environ, HTTP, clients, sent,
                 attempt, backoff>>

Call(c) ==
  \E fn \in Functions : \E a \in Arguments(fn) : \E integration_id \in IntegrationIds :
    \E dns \in DnsOutcomes(DNS_LOGGED) : CallWith(c, fn, a, integration_id, dns)

\* One call at a time: the caller waits for the result before the next call.
SequentialCall(c) ==
  /\ \A d \in Calls : pc[d] = "idle"
  /\ Call(c)

\* A request that waits for a connection gets one.
Connect(c) ==
  /\ Waiting(c)
  /\ CanAcquire(pool)
  /\ pool' = Acquire(pool)
  /\ hist' = [hist EXCEPT ![c].conn = TRUE]
  /\ UNCHANGED <<RETRIES, BACKOFF_BASE_S, MAX_CONNECTIONS, environ, HTTP, clients, started, rids, sent,
                 DNS_LOGGED, pc, frame, attempt, backoff, outcome>>

\* the ways the HEAD request ends: a response (any status), an exception or the
\* 5 s bound while it has a connection, a pool timeout while it waits for one
PreflightEnds == {"response", "raised", "pool_timeout"}

PreflightError(how) ==
  Exc(IF how = "pool_timeout" THEN "PoolTimeout" ELSE "ConnectError", <<"boom">>, 0)

\* mutant: a failed HEAD request leaves _preflight_health
PreflightRaisesOnFailure(how) == how \in {"raised", "pool_timeout"}

\* whether _preflight_health raises into make_api_request: its except
\* Exception clause only logs
PreflightRaises(how) == FALSE

\* _preflight_health() has returned (whatever happened to the HEAD request);
\* _post_with_retries starts and sends the first POST on _HTTP.
PreflightEndsWith(c, how) ==
  /\ how \in {"response", "raised"} => hist[c].conn
  /\ how = "pool_timeout" => ~hist[c].conn /\ ~CanAcquire(pool)
  /\ LET released == CASE how = "response" -> ReleaseKeepAlive(pool)
                       [] how = "raised" -> ReleaseClosed(pool)
                       [] how = "pool_timeout" -> pool
     IN  IF PreflightRaises(how)
         THEN /\ pool' = released
              /\ hist' = [hist EXCEPT ![c].preflight = how, ![c].conn = FALSE,
                                      ![c].raised = PreflightError(how)]
              /\ outcome' = [outcome EXCEPT ![c] =
                               Handle(frame[c].fn, frame[c].arg, frame[c].payload,
                                      PreflightError(how))]
              /\ pc' = [pc EXCEPT ![c] = "done"]
              /\ UNCHANGED <<attempt, sent, backoff>>
         ELSE /\ pool' = PoolAfterSend(c, released)
              /\ hist' = [hist EXCEPT ![c].preflight = how,
                                      ![c].posts = 1,
                                      ![c].clients = @ \cup {RequestClient},
                                      ![c].conn = ConnectsAtOnce(c, released)]
              /\ attempt' = [attempt EXCEPT ![c] = 1]
              /\ sent' = SentWith(c, 1)
              /\ backoff' = [backoff EXCEPT ![c] = BACKOFF_BASE_S]
              /\ pc' = [pc EXCEPT ![c] = "post"]
              /\ UNCHANGED outcome
  /\ UNCHANGED <<RETRIES, BACKOFF_BASE_S, MAX_CONNECTIONS, environ, HTTP, clients, started, rids,
                 DNS_LOGGED, frame>>

PreflightDone(c) ==
  /\ pc[c] = "preflight"
  /\ \E how \in PreflightEnds : PreflightEndsWith(c, how)

\* The try block of _post_with_retries raised e (resp is the response received,
\* if any): either the loop sleeps before the next attempt, or e propagates
\* through make_api_request into the handlers of run_*.
\* mutant: the failure is wrapped before it leaves the transport client
ReraiseWrapped(e) == Exc("RuntimeError", e.msg, e.attempt)

\* what leaves _post_with_retries and make_api_request when e ends the loop:
\* a bare `raise` in both, and raise_for_status() outside any matching clause
Reraise(e) == e

AttemptRaises(c, e, resp, midbody) ==
  IF Retryable(e) /\ ~Exhausted(attempt[c], RETRIES)
  THEN /\ pc' = [pc EXCEPT ![c] = "backoff"]
       /\ hist' = [hist EXCEPT ![c].failure = e, ![c].response = resp, ![c].conn = FALSE,
                               ![c].ended = @ + 1, ![c].midbody = midbody]
       /\ UNCHANGED outcome
  ELSE /\ pc' = [pc EXCEPT ![c] = "done"]
       /\ hist' = [hist EXCEPT ![c].failure = e, ![c].response = resp,
                               ![c].raised = Reraise(e),
                               ![c].conn = FALSE, ![c].ended = @ + 1,
                               ![c].midbody = midbody]
       /\ outcome' = [outcome EXCEPT ![c] =
                        Handle(frame[c].fn, frame[c].arg, frame[c].payload, Reraise(e))]

\* mutant: a body that cannot be decoded counts as a failed attempt
AfterDecodeErrorRetry(k, retries) == IF k >= retries THEN "done" ELSE "backoff"

\* where the call is after resp.json() raised on attempt k: resp.json() is
\* called in make_api_request, after _post_with_retries has returned, and the
\* except clause there re-raises
AfterDecodeError(k, retries) == "done"

\* The POST (pc[c] = "post", on a connection) got a response with this status
\* and body; the connection goes back to the pool.
PostRespondsWith(c, status, text) ==
  /\ LET resp == Response(status, text) IN
     IF ~is_success(status)
     THEN AttemptRaises(c, HTTPStatusError(resp, attempt[c]), resp, FALSE)
     ELSE IF JsonDecodable(text)
          THEN /\ pc' = [pc EXCEPT ![c] = "done"]
               /\ hist' = [hist EXCEPT ![c].response = resp, ![c].conn = FALSE,
                                       ![c].ended = @ + 1]
               /\ outcome' = [outcome EXCEPT ![c] = SuccessResult(json_loads(text))]
          ELSE LET e == Exc("JSONDecodeError", <<"Expecting value">>, attempt[c]) IN
               /\ pc' = [pc EXCEPT ![c] = AfterDecodeError(attempt[c], RETRIES)]
               /\ hist' = [hist EXCEPT ![c].response = resp, ![c].raised = e,
                                       ![c].conn = FALSE, ![c].ended = @ + 1]
               /\ outcome' = [outcome EXCEPT ![c] =
                                Handle(frame[c].fn, frame[c].arg, frame[c].payload, e)]
  /\ pool' = ReleaseKeepAlive(pool)
  /\ UNCHANGED <<RETRIES, BACKOFF_BASE_S, MAX_CONNECTIONS, environ, HTTP, clients, started, rids, sent,
                 DNS_LOGGED, frame, attempt, backoff>>

PostResponds(c) ==
  /\ pc[c] = "post"
  /\ hist[c].conn
  /\ \E status \in StatusCodes : \E text \in SampleTexts :
       PostRespondsWith(c, status, text)

\* The POST (or the wait_for around it) raised: PoolTimeout while it waited for
\* a connection of an exhausted pool, anything else on its connection, which
\* is closed.
\* the failures _HTTP.post can raise while it reads the body, that is after
\* the status line and headers of the response have arrived: post() returns
\* only when the whole body is read, and wait_for bounds all of it
MidBodyClasses == {"ReadTimeout", "ReadError", "RemoteProtocolError", "TimeoutError"}
MidBody(cls) == IF cls \in MidBodyClasses THEN BOOLEAN ELSE {FALSE}

PostRaisesWith(c, cls, msg, midbody) ==
  /\ IF cls = "PoolTimeout"
     THEN ~hist[c].conn /\ ~CanAcquire(pool) /\ pool' = pool
     ELSE hist[c].conn /\ pool' = ReleaseClosed(pool)
  /\ midbody \in MidBody(cls)
  /\ AttemptRaises(c, Exc(cls, msg, attempt[c]), hist[c].response, midbody)
  /\ UNCHANGED <<RETRIES, BACKOFF_BASE_S, MAX_CONNECTIONS, environ, HTTP, clients, started, rids, sent,
                 DNS_LOGGED, frame, attempt, backoff>>

PostRaises(c) ==
  /\ pc[c] = "post"
  /\ \E cls \in TransportClasses : \E msg \in ExcMessages : \E midbody \in MidBody(cls) :
       PostRaisesWith(c, cls, msg, midbody)

\* mutant: the next attempt starts with a preflight of its own
AfterSleepPreflight == "preflight"

\* where the call is after the backoff sleep: at the top of the while loop of
\* _post_with_retries, which holds the POST only
AfterSleep == "post"

\* asyncio.sleep(backoff) has returned: double the backoff, leave the except
\* block (which unbinds e) and send the next POST on _HTTP.
BackoffDone(c) ==
  /\ pc[c] = "backoff"
  /\ backoff' = [backoff EXCEPT ![c] = NextBackoff(@)]
  /\ attempt' = [attempt EXCEPT ![c] = @ + 1]
  /\ sent' = SentWith(c, attempt[c] + 1)
  /\ hist' = [hist EXCEPT ![c].waited = @ + Sleep(backoff[c]), ![c].posts = @ + 1,
                          ![c].failure = NoExc, ![c].response = NoResponse,
                          ![c].midbody = FALSE,
                          ![c].clients = @ \cup {RequestClient},
                          ![c].conn = ConnectsAtOnce(c, pool)]
  /\ pool' = PoolAfterSend(c, pool)
  /\ pc' = [pc EXCEPT ![c] = AfterSleep]
  /\ UNCHANGED <<RETRIES, BACKOFF_BASE_S, MAX_CONNECTIONS, environ, HTTP, clients, started, rids,
                 DNS_LOGGED, frame, outcome>>

\* The caller has taken the result (or the exception); the coroutine is gone.
\* mutant: after a failure dict the tool awaits make_api_request again
AfterFailureAwaitAgain(o) ==
  IF o.kind = "return" /\ o.via = "result" THEN "idle" ELSE "preflight"

\* where run_sql_query / run_cube_query is after its outcome o: every branch of
\* the try statement ends in a return (or lets the exception go), there is no loop
AfterOutcome(o) == "idle"

Return(c) ==
  /\ pc[c] = "done"
  /\ pc' = [pc EXCEPT ![c] = AfterOutcome(outcome[c])]
  /\ frame' = [frame EXCEPT ![c] = NoFrame]
  /\ attempt' = [attempt EXCEPT ![c] = 0]
  /\ backoff' = [backoff EXCEPT ![c] = 0]
  /\ hist' = [hist EXCEPT ![c] = NoHist]
  /\ outcome' = [outcome EXCEPT ![c] = NoOutcome]
  /\ UNCHANGED <<RETRIES, BACKOFF_BASE_S, MAX_CONNECTIONS, environ, HTTP, clients, started, rids, sent,
                 pool, DNS_LOGGED>>

\* One call at a time never finds a request of another call waiting, so
\* Connect is never enabled here.
Next ==
  \E c \in Calls :
    \/ SequentialCall(c)
    \/ PreflightDone(c)
    \/ PostResponds(c)
    \/ PostRaises(c)
    \/ BackoffDone(c)
    \/ Return(c)

Spec == Init /\ [][Next]_vars

\* ------------------------------------------------------------------------
\* The error normaliser on its own: default configuration, a backend that
\* rejects every request, error bodies with every message up to MaxLen,
\* no default integration id in the environment
\* ------------------------------------------------------------------------

DEFAULT_RETRIES == 4
ErrorStatuses == {s \in StatusCodes : ~is_success(s)}

InitNorm ==
  /\ Init
  /\ RETRIES = DEFAULT_RETRIES
  /\ BACKOFF_BASE_S = 1
  /\ MAX_CONNECTIONS = MaxConnections
  /\ \A n \in EnvNames : environ[n] = PyNone

\* The backend rejects the POST with any of the error bodies.
AllBodyTexts == BodyTexts(Strings(MaxLen))
Rejected(c) ==
  /\ pc[c] = "post"
  /\ hist[c].conn
  /\ \E status \in ErrorStatuses : \E text \in AllBodyTexts :
       PostRespondsWith(c, status, text)

NextNorm ==
  \E c \in Calls :
    \/ SequentialCall(c)
    \/ PreflightDone(c)
    \/ Rejected(c)
    \/ Return(c)

SpecNorm == InitNorm /\ [][NextNorm]_vars

\* ------------------------------------------------------------------------
\* Concurrent calls against a backend that always succeeds: every request
\* that has a connection gets a 2xx response with a JSON body; a request
\* that waits for a connection of the exhausted pool may time out
\* ------------------------------------------------------------------------

InitConc ==
  /\ InitWith(1..NCalls)
  /\ RETRIES = 2
  /\ BACKOFF_BASE_S = 1
  /\ \A n \in EnvNames : environ[n] = PyNone

\* A tool is invoked while other calls are in flight.
ConcurrentCall(c) ==
  \E fn \in Functions : \E a \in Arguments(fn) : \E dns \in DnsOutcomes(DNS_LOGGED) :
    CallWith(c, fn, a, PyNone, dns)

\* The HEAD request got a response, or timed out waiting for a connection.
PreflightServed(c) ==
  /\ pc[c] = "preflight"
  /\ \E how \in {"response", "pool_timeout"} : PreflightEndsWith(c, how)

SuccessBody == <<"{\"data\": []}">>

\* The backend answers the POST with 200 and a JSON body.
Succeeds(c) ==
  /\ pc[c] = "post"
  /\ hist[c].conn
  /\ PostRespondsWith(c, 200, SuccessBody)

\* The POST waited for a connection longer than the pool timeout.
PoolTimesOut(c) ==
  /\ pc[c] = "post"
  /\ PostRaisesWith(c, "PoolTimeout", <<>>, FALSE)

NextConc ==
  \E c \in Calls :
    \/ ConcurrentCall(c)
    \/ Connect(c)
    \/ PreflightServed(c)
    \/ Succeeds(c)
    \/ PoolTimesOut(c)
    \/ BackoffDone(c)
    \/ Return(c)

SpecConc == InitConc /\ [][NextConc]_vars

\* ------------------------------------------------------------------------
\* Calls while the defaults in os.environ are set, changed and deleted, as
\* scripts/test_request_details.py does around its calls
\* ------------------------------------------------------------------------

InitEnv ==
  /\ InitWith({NCalls})
  /\ RETRIES = 1
  /\ BACKOFF_BASE_S = 1
  /\ \A n \in EnvNames : environ[n] = PyNone

\* the values os.environ[name] is set to; None stands for `del os.environ[name]`
EnvSettings(name) == EnvValues(name) \cup {PyStr(<<>>), PyStr(<<"int-2">>)}

\* os.environ[name] = v, or del os.environ[name], before a call that is still
\* to come
Setenv(name, v) ==
  /\ started < MaxStarted
  /\ environ[name] # v
  /\ environ' = [environ EXCEPT ![name] = v]
  /\ UNCHANGED <<RETRIES, BACKOFF_BASE_S, MAX_CONNECTIONS, HTTP, clients, started, rids, sent,
                 pool, DNS_LOGGED, pc, frame, attempt, backoff, hist, outcome>>

\* A tool is invoked, with or without an integration_id, while other calls are
\* in flight.
CallAnyTime(c) ==
  \E fn \in Functions : \E integration_id \in IntegrationIds :
    \E dns \in DnsOutcomes(DNS_LOGGED) \ {"failed", "no_host"} :
      CallWith(c, fn, CHOOSE a \in Arguments(fn) : TRUE, integration_id, dns)

\* The HEAD request got a response.
PreflightResponds(c) ==
  /\ pc[c] = "preflight"
  /\ PreflightEndsWith(c, "response")

NextEnv ==
  \/ \E name \in EnvNames : \E v \in EnvSettings(name) : Setenv(name, v)
  \/ \E c \in Calls :
       \/ CallAnyTime(c)
       \/ PreflightResponds(c)
       \/ Succeeds(c)
       \/ Return(c)

SpecEnv == InitEnv /\ [][NextEnv]_vars

\* ------------------------------------------------------------------------
\* Calls whose awaits all end: the HEAD request ends (response, failure or the
\* 5 s bound of wait_for), every POST attempt ends (response, failure or the
\* attempt deadline), every asyncio.sleep ends, and the caller takes the result
\* ------------------------------------------------------------------------

InitFair ==
  /\ Init
  /\ BACKOFF_BASE_S = 1
  /\ MAX_CONNECTIONS = MaxConnections
  /\ \A n \in EnvNames : environ[n] = PyNone

Fairness ==
  \A c \in Calls :
    /\ WF_vars(PreflightDone(c))
    /\ WF_vars(PostResponds(c) \/ PostRaises(c))
    /\ WF_vars(BackoffDone(c))
    /\ WF_vars(Return(c))

SpecFair == InitFair /\ [][Next]_vars /\ Fairness

\* ------------------------------------------------------------------------
\* Properties
\* ------------------------------------------------------------------------

Done(c) == pc[c] = "done"
\* the call ended with one of the three failure dicts
ReturnedFailure(c) == Done(c) /\ outcome[c].kind = "return" /\ outcome[c].via # "result"
\* the call ended because the POST got a 2xx response / a non-2xx response
Got2xx(c) == Done(c) /\ is_success(hist[c].response.status_code)
GotRejected(c) == Done(c) /\ hist[c].failure.cls = "HTTPStatusError"
\* the connectivity-class failures named by the specification
ConnectivityClasses ==
  {"ConnectTimeout", "ConnectError", "ReadTimeout", "PoolTimeout",
   "RemoteProtocolError", "TimeoutError"}
\* the call ended because connectivity failures used up the attempts
ExhaustedRetries(c) == Done(c) /\ hist[c].raised.cls \in ConnectivityClasses
MaxOf(a, b) == IF a >= b THEN a ELSE b

\* C1: whatever the transport does, run_sql_query and run_cube_query return a
\* value (the backend body or a failure dict); no exception leaves them.
C1_NoExceptionEscapes ==
  \A c \in Calls : Done(c) => outcome[c].kind = "return"

\* C2: in every failure dict returned, error is a non-empty string.
C2_ErrorIsNonEmptyString ==
  \A c \in Calls :
    ReturnedFailure(c) =>
      /\ outcome[c].value.dict.error.ty = "str"
      /\ Len(outcome[c].value.dict.error.str) > 0

\* C3: a non-2xx response is never retried: the attempt that received it is the
\* last POST of the call, and the HTTPStatusError it raised is what leaves the
\* transport client.
C3_StatusErrorNeverRetried ==
  \A c \in Calls :
    hist[c].failure.cls = "HTTPStatusError" =>
      /\ pc[c] = "done"
      /\ hist[c].raised = hist[c].failure
      /\ hist[c].raised.response = hist[c].response
      /\ hist[c].posts = hist[c].failure.attempt

\* C3 witness: a non-2xx response on a later attempt, with attempts left
C3_Witness ==
  \E c \in Calls :
    /\ GotRejected(c)
    /\ hist[c].posts >= 2
    /\ hist[c].posts < RETRIES

\* C4: only a failure of the six connectivity classes is followed by another
\* attempt; any other failure (of the POST, or of decoding a 2xx body) ends the
\* call at once, with no further attempt.
C4_RetryOnlyConnectivity ==
  \A c \in Calls :
    /\ pc[c] = "backoff" => hist[c].failure.cls \in ConnectivityClasses
    /\ (hist[c].failure # NoExc /\ hist[c].failure.cls \notin ConnectivityClasses) =>
         /\ pc[c] = "done"
         /\ hist[c].raised = hist[c].failure
         /\ hist[c].posts = hist[c].failure.attempt
    /\ hist[c].raised # NoExc =>
         /\ pc[c] = "done"
         /\ hist[c].posts = hist[c].raised.attempt

\* C4 witness: a write timeout ended the call although attempts were left
C4_Witness ==
  \E c \in Calls :
    /\ Done(c)
    /\ hist[c].failure.cls = "WriteTimeout"
    /\ hist[c].posts < RETRIES

\* C5 as stated: a call never makes more than RETRIES POST attempts, and after
\* RETRIES connectivity failures the failure of attempt RETRIES is propagated.
C5_AtMostRetriesAttempts ==
  \A c \in Calls :
    /\ hist[c].posts >= 1 => hist[c].posts <= RETRIES
    /\ ExhaustedRetries(c) =>
         hist[c].raised = hist[c].failure /\ hist[c].raised.attempt = RETRIES

\* C5 amended: a call never makes more than max(1, RETRIES) POST attempts, and
\* when all of them fail with connectivity failures the failure propagated is
\* the failure of the last attempt, unchanged.
C5_AtMostMaxOneRetriesAttempts ==
  \A c \in Calls :
    /\ hist[c].posts <= MaxOf(1, RETRIES)
    /\ ExhaustedRetries(c) =>
         /\ hist[c].raised = hist[c].failure
         /\ hist[c].raised.attempt = MaxOf(1, RETRIES)
         /\ hist[c].posts = MaxOf(1, RETRIES)

\* C5 witness: all RETRIES >= 2 attempts failed with connectivity failures
C5_Witness ==
  \E c \in Calls :
    /\ ExhaustedRetries(c)
    /\ RETRIES >= 2
    /\ hist[c].posts = RETRIES

\* C6 as stated: if attempt k gets a 2xx response after k-1 connectivity
\* failures, the call returns the success result of attempt k and has slept
\* base * (2^(k-1) - 1) in total.
C6_SuccessAfterRetries ==
  \A c \in Calls :
    (Got2xx(c) /\ attempt[c] <= RETRIES) =>
      /\ outcome[c].kind = "return"
      /\ outcome[c].via = "result"
      /\ hist[c].posts = attempt[c]
      /\ hist[c].waited = BACKOFF_BASE_S * (2^(attempt[c] - 1) - 1)

\* C6 amended: if attempt k gets a 2xx response whose body is valid JSON after
\* k-1 connectivity failures, the call returns the decoded body of attempt k
\* and has slept base * (2^(k-1) - 1) in total.
C6_JsonSuccessAfterRetries ==
  \A c \in Calls :
    (Got2xx(c) /\ JsonDecodable(hist[c].response.text)) =>
      /\ outcome[c].kind = "return"
      /\ outcome[c].via = "result"
      /\ outcome[c].value = json_loads(hist[c].response.text)
      /\ hist[c].posts = attempt[c]
      /\ attempt[c] <= MaxOf(1, RETRIES)
      /\ hist[c].waited = BACKOFF_BASE_S * (2^(attempt[c] - 1) - 1)

\* C6 witness: success on the fourth attempt after base + 2 base + 4 base
C6_Witness ==
  \E c \in Calls :
    /\ Got2xx(c)
    /\ outcome[c].via = "result"
    /\ attempt[c] = 4
    /\ hist[c].waited = BACKOFF_BASE_S + 2 * BACKOFF_BASE_S + 4 * BACKOFF_BASE_S

\* C7: on a 2xx response with a JSON body the call returns exactly the decoded
\* body: same type, same keys, same values.
C7_SuccessPassthrough ==
  \A c \in Calls :
    (Got2xx(c) /\ JsonDecodable(hist[c].response.text)) =>
      LET body == json_loads(hist[c].response.text) IN
      /\ outcome[c].kind = "return"
      /\ outcome[c].value.ty = body.ty
      /\ body.ty = "dict" =>
           /\ DOMAIN outcome[c].value.dict = DOMAIN body.dict
           /\ \A k \in DOMAIN body.dict : outcome[c].value.dict[k] = body.dict[k]
      /\ body.ty # "dict" => outcome[c].value = body

\* C7 witness: the body {"data": []} came back with its one key
C7_Witness ==
  \E c \in Calls :
    /\ Got2xx(c)
    /\ hist[c].response.text = <<"{\"data\": []}">>
    /\ outcome[c].value.ty = "dict"
    /\ DOMAIN outcome[c].value.dict = {"data"}

\* the phase tag the specification gives each connectivity failure
PhaseTag(cls) ==
  CASE cls = "ConnectTimeout" -> "connect_timeout"
    [] cls = "ReadTimeout" -> "read_timeout"
    [] cls = "PoolTimeout" -> "pool_timeout"
    [] cls = "TimeoutError" -> "attempt_deadline_timeout"
    [] cls = "ConnectError" -> "connect_error"
    [] cls = "RemoteProtocolError" -> "protocol_error"

\* C8: when connectivity failures exhaust the retry count, the failure dict has
\* request_details.phase equal to the tag of the last failure's kind and no
\* http_status key.
C8_ExhaustedPhase ==
  \A c \in Calls :
    ExhaustedRetries(c) =>
      /\ outcome[c].kind = "return"
      /\ outcome[c].via = "exception"
      /\ outcome[c].value.dict.request_details.dict.phase =
           PyStr(<<PhaseTag(hist[c].failure.cls)>>)
      /\ "http_status" \notin DOMAIN outcome[c].value.dict

\* C8 witness: every attempt of a call with RETRIES >= 2 timed out reading
C8_Witness ==
  \E c \in Calls :
    /\ ExhaustedRetries(c)
    /\ RETRIES >= 2
    /\ hist[c].failure.cls = "ReadTimeout"
    /\ outcome[c].value.dict.request_details.dict.phase = PyStr(<<"read_timeout">>)

\* the message string of a rejected call whose body is {"message": "<string>"}
RejectedWithMessage(c) == GotRejected(c) /\ IsMessageBody(hist[c].response.text)
MessageOf(c) == SubSeq(hist[c].response.text, 2, Len(hist[c].response.text) - 1)

\* e is what follows the first occurrence of the marker in m, without the
\* whitespace at its two ends, and is not empty
IsTrimmedTextAfterMarker(m, e) ==
  \E i \in 1..Len(m) :
    /\ OccursAt(m, Marker, i)
    /\ \A j \in 1..(i - 1) : ~OccursAt(m, Marker, j)
    /\ \E a \in (i + Len(Marker))..Len(m) : \E b \in a..Len(m) :
         /\ m[a] \notin Whitespace
         /\ m[b] \notin Whitespace
         /\ \A j \in (i + Len(Marker))..(a - 1) : m[j] \in Whitespace
         /\ \A j \in (b + 1)..Len(m) : m[j] \in Whitespace
         /\ e = SubSeq(m, a, b)

\* the text after the first occurrence of the marker in m is blank
BlankAfterMarker(m) ==
  \E i \in 1..Len(m) :
    /\ OccursAt(m, Marker, i)
    /\ \A j \in 1..(i - 1) : ~OccursAt(m, Marker, j)
    /\ \A j \in (i + Len(Marker))..Len(m) : m[j] \in Whitespace

\* C9: when the message of a non-2xx body contains the marker followed by
\* non-blank text, error is the text after the first marker, trimmed.
C9_MarkerTextExtracted ==
  \A c \in Calls :
    (RejectedWithMessage(c) /\ StrContains(MessageOf(c), Marker)
       /\ ~BlankAfterMarker(MessageOf(c))) =>
      /\ outcome[c].kind = "return"
      /\ outcome[c].value.dict.error.ty = "str"
      /\ IsTrimmedTextAfterMarker(MessageOf(c), outcome[c].value.dict.error.str)

\* C9 witness: "x Something went wrong: x " gave "x"
C9_Witness ==
  \E c \in Calls :
    /\ RejectedWithMessage(c)
    /\ MessageOf(c) = <<"x">> \o Marker \o <<" ", "x">>
    /\ outcome[c].value.dict.error = PyStr(<<"x">>)

\* C10: when the text after the marker is blank, error is
\* "Query failed with HTTP {status}".
C10_BlankAfterMarkerFallback ==
  \A c \in Calls :
    (RejectedWithMessage(c) /\ BlankAfterMarker(MessageOf(c))) =>
      /\ outcome[c].kind = "return"
      /\ outcome[c].value.dict.error =
           PyStr(<<"Query failed with HTTP ", ToString(hist[c].response.status_code)>>)

\* C11: when the message of a non-2xx body is the empty string, error is
\* "Query failed with HTTP {status}".
C11_EmptyMessageFallback ==
  \A c \in Calls :
    (RejectedWithMessage(c) /\ MessageOf(c) = <<>>) =>
      /\ outcome[c].kind = "return"
      /\ outcome[c].value.dict.error =
           PyStr(<<"Query failed with HTTP ", ToString(hist[c].response.status_code)>>)

\* C12: every failure dict returned for a non-2xx response has http_status equal
\* to the status code of the response, and request_details.
C12_HttpFailureHasStatusAndDetails ==
  \A c \in Calls :
    (GotRejected(c) /\ ReturnedFailure(c)) =>
      /\ "http_status" \in DOMAIN outcome[c].value.dict
      /\ outcome[c].value.dict.http_status = PyInt(hist[c].response.status_code)
      /\ "request_details" \in DOMAIN outcome[c].value.dict

\* the body is JSON that has no "message" field
JsonWithoutMessage(t) ==
  /\ JsonDecodable(t)
  /\ json_loads(t).ty = "dict" => "message" \notin DOMAIN json_loads(t).dict

\* C13: when the body of a non-2xx response is not JSON, or is JSON without a
\* message field, a failure dict is returned whose error contains the status
\* code and the body text.
C13_FallbackHasStatusAndBody ==
  \A c \in Calls :
    (GotRejected(c) /\ (~JsonDecodable(hist[c].response.text)
                          \/ JsonWithoutMessage(hist[c].response.text))) =>
      /\ outcome[c].kind = "return"
      /\ outcome[c].value.dict.error.ty = "str"
      /\ StrContains(outcome[c].value.dict.error.str,
                     <<ToString(hist[c].response.status_code)>>)
      /\ StrContains(outcome[c].value.dict.error.str, hist[c].response.text)

\* the "message" of a rejected call whose body is a JSON object that has one
HasMessage(c) ==
  /\ GotRejected(c)
  /\ JsonDecodable(hist[c].response.text)
  /\ json_loads(hist[c].response.text).ty = "dict"
  /\ "message" \in DOMAIN json_loads(hist[c].response.text).dict
JsonMessage(c) == json_loads(hist[c].response.text).dict["message"]
\* a string, array or object that is not empty
NonEmpty(v) ==
  CASE v.ty = "str" -> v.str # <<>>
    [] v.ty = "list" -> v.list # <<>>
    [] v.ty = "dict" -> DOMAIN v.dict # {}
    [] OTHER -> FALSE
\* the marker is a substring of the string v / an element of the array v
ContainsMarker(v) ==
  CASE v.ty = "str" -> \E i \in 1..Len(v.str) : OccursAt(v.str, Marker, i)
    [] v.ty = "list" -> \E i \in 1..Len(v.list) : v.list[i] = PyStr(Marker)
    [] OTHER -> FALSE

\* C14: when the message of a non-2xx body is not empty and does not contain
\* the marker, error is that message, unchanged.
C14_MessageVerbatim ==
  \A c \in Calls :
    (HasMessage(c) /\ NonEmpty(JsonMessage(c)) /\ ~ContainsMarker(JsonMessage(c))) =>
      /\ outcome[c].kind = "return"
      /\ outcome[c].value.dict.error = JsonMessage(c)

\* C14 witness: the message " x: " came back with its blanks
C14_Witness ==
  \E c \in Calls :
    /\ HasMessage(c)
    /\ JsonMessage(c) = PyStr(<<" ", "x", ":", " ">>)
    /\ outcome[c].value.dict.error = PyStr(<<" ", "x", ":", " ">>)

\* the call ended with an exception that is not an HTTPStatusError
NonHttpFailure(c) ==
  /\ Done(c)
  /\ hist[c].raised # NoExc
  /\ hist[c].raised.cls # "HTTPStatusError"

QualifiedName(cls) ==
  CASE cls \in {"ConnectTimeout", "ReadTimeout", "WriteTimeout", "PoolTimeout",
                "ConnectError", "ReadError", "RemoteProtocolError"} -> <<"httpx", ".", cls>>
    [] cls = "JSONDecodeError" -> <<"json.decoder", ".", cls>>
    [] cls \in {"TimeoutError", "RuntimeError"} -> <<"builtins", ".", cls>>

C17_FailedAndEcho ==
  \A c \in Calls :
    ReturnedFailure(c) =>
      LET d == outcome[c].value.dict IN
      /\ "status" \in DOMAIN d
      /\ d.status = PyStr(<<"failed">>)
      /\ frame[c].fn = "run_sql_query" =>
           "query" \in DOMAIN d /\ d["query"] = frame[c].arg
      /\ frame[c].fn = "run_cube_query" =>
           "cube_query" \in DOMAIN d /\ d["cube_query"] = frame[c].arg

\* C17 witness: a cube query rejected by the backend, echoed in the fallback dict
C17_Witness ==
  \E c \in Calls :
    /\ ReturnedFailure(c)
    /\ outcome[c].via = "http_fallback"
    /\ frame[c].fn = "run_cube_query"
    /\ frame[c].arg = PyDict([limit |-> PyInt(10)])
    /\ outcome[c].value.dict["cube_query"] = PyDict([limit |-> PyInt(10)])

\* the caller gave an integration id (None and "" count as not given)
Provided(v) == v # PyNone /\ v # PyStr(<<>>)
\* the default configured for the tool itself
OwnDefault(fn) ==
  IF fn = "run_sql_query" THEN environ["_TABLE_INTEGRATION_ID"]
  ELSE environ["_CUBE_INTEGRATION_ID"]

\* C18: the payload's integration_id is the caller's when given; otherwise the
\* tool's own configured default when there is one; otherwise the payload has
\* no integration_id key.  The other tool's default is never used.
C18_IntegrationIdChoice ==
  \A c \in Calls :
    frame[c].fn # "none" =>
      LET p == frame[c].payload
          given == frame[c].integration_id
          default == OwnDefault(frame[c].fn)
      IN  /\ Provided(given) =>
                "integration_id" \in DOMAIN p /\ p["integration_id"] = given
          /\ (~Provided(given) /\ Provided(default)) =>
                "integration_id" \in DOMAIN p /\ p["integration_id"] = default
          /\ (~Provided(given) /\ ~Provided(default)) =>
                "integration_id" \notin DOMAIN p

\* C18 witness: a cube query without integration id when only the SQL default
\* is configured goes out without integration_id
C18_Witness ==
  \E c \in Calls :
    /\ frame[c].fn = "run_cube_query"
    /\ frame[c].integration_id = PyNone
    /\ environ["_TABLE_INTEGRATION_ID"] # PyNone
    /\ environ["_CUBE_INTEGRATION_ID"] = PyNone
    /\ DOMAIN frame[c].payload = {"cube_query"}

\* C19: the process constructs one client, at import; _HTTP stays bound to it
\* and it stays open; the HEAD request and every POST attempt of every call
\* are sent on it.
C19_OneSharedClient ==
  /\ clients = 1
  /\ HTTP.id = 1
  /\ ~HTTP.is_closed
  /\ \A c \in Calls :
       /\ hist[c].clients \subseteq {1}
       /\ pc[c] # "idle" => hist[c].clients = {1}

\* C19 witness: one call is at its second POST attempt while another call's
\* preflight is in flight, both on the one client
C19_Witness ==
  \E c \in Calls : \E d \in Calls \ {c} :
    /\ pc[c] = "post"
    /\ hist[c].posts = 2
    /\ hist[c].clients = {1}
    /\ pc[d] = "preflight"
    /\ hist[d].clients = {1}

\* the call ended with the decoded body of a 2xx response
Succeeded(c) == Done(c) /\ outcome[c].kind = "return" /\ outcome[c].via = "result"

\* C20 as stated: with calls in flight concurrently against a backend that
\* always succeeds, the open connections never exceed max_connections and
\* every call ends with the success result.
C20_WithinLimitAndAllSucceed ==
  /\ pool.open <= MAX_CONNECTIONS
  /\ \A c \in Calls : Done(c) => Succeeded(c)

\* C20 amended: the open connections never exceed max_connections; when
\* max_connections is at least the number of concurrent calls no request waits
\* for a connection and every call ends with the success result of its first
\* attempt; a call that does not succeed has had RETRIES pool timeouts and
\* ends with a failure dict tagged pool_timeout.
C20_WithinLimitAndSucceedIfRoom ==
  /\ pool.open <= MAX_CONNECTIONS
  /\ MAX_CONNECTIONS >= NCalls =>
       \A c \in Calls :
         /\ ~Waiting(c)
         /\ Done(c) => Succeeded(c) /\ hist[c].posts = 1
  /\ \A c \in Calls :
       (Done(c) /\ ~Succeeded(c)) =>
         /\ MAX_CONNECTIONS < NCalls
         /\ hist[c].raised.cls = "PoolTimeout"
         /\ hist[c].posts = RETRIES
         /\ outcome[c].kind = "return"
         /\ outcome[c].value.dict.request_details.dict.phase = PyStr(<<"pool_timeout">>)

\* C20 witness: as many calls as max_connections allows have all ended with
\* the success result, each on a connection of its own
C20_Witness ==
  /\ MAX_CONNECTIONS = NCalls
  /\ pool.open = NCalls
  /\ \A c \in Calls : Succeeded(c)

\* C21: the wait after failed attempt k is BACKOFF_BASE_S * 2^(k-1): the first
\* wait is the base and each later wait is twice the one before.
C21_WaitDoubles ==
  \A c \in Calls :
    pc[c] = "backoff" => backoff[c] = BACKOFF_BASE_S * 2^(attempt[c] - 1)

\* C21 witness: the wait after the third failed attempt of a call with base 2
\* is 8
C21_Witness ==
  \E c \in Calls :
    /\ pc[c] = "backoff"
    /\ attempt[c] = 3
    /\ BACKOFF_BASE_S = 2
    /\ backoff[c] = 8

\* C22: within a call the POST attempts are strictly sequential: at most one is
\* in flight; attempt k+1 is sent only when attempt k has failed and every
\* backoff wait up to then has elapsed.
C22_AttemptsSequential ==
  \A c \in Calls :
    /\ hist[c].posts - hist[c].ended \in {0, 1}
    /\ hist[c].posts - hist[c].ended = 1 <=> pc[c] = "post"
    /\ pc[c] = "post" =>
         /\ hist[c].posts = attempt[c]
         /\ hist[c].waited = BACKOFF_BASE_S * (2^(attempt[c] - 1) - 1)
    /\ pc[c] = "backoff" =>
         /\ hist[c].ended = attempt[c]
         /\ hist[c].failure # NoExc
         /\ hist[c].failure.attempt = attempt[c]

\* C22 witness: the third attempt is in flight after two failed attempts and
\* waits of base and twice the base
C22_Witness ==
  \E c \in Calls :
    /\ pc[c] = "post"
    /\ hist[c].posts = 3
    /\ hist[c].ended = 2
    /\ hist[c].waited = 3 * BACKOFF_BASE_S

\* C23: an attempt that exceeds the attempt deadline (asyncio.TimeoutError) is
\* abandoned and treated like a timeout of httpx: with attempts left it is
\* followed by the usual backoff wait, and when it is the last failure the
\* failure dict has phase attempt_deadline_timeout.
C23_DeadlineLikeTimeout ==
  \A c \in Calls :
    hist[c].failure.cls = "TimeoutError" =>
      /\ ~hist[c].conn
      /\ hist[c].failure.attempt < RETRIES =>
           /\ pc[c] = "backoff"
           /\ backoff[c] = BACKOFF_BASE_S * 2^(hist[c].failure.attempt - 1)
      /\ hist[c].failure.attempt >= RETRIES =>
           /\ Done(c)
           /\ hist[c].raised = hist[c].failure
           /\ outcome[c].kind = "return"
           /\ outcome[c].value.dict.request_details.dict.phase =
                PyStr(<<"attempt_deadline_timeout">>)

\* C23 witness: the deadline was exceeded on a first attempt that is retried
C23_Witness ==
  \E c \in Calls :
    /\ hist[c].failure.cls = "TimeoutError"
    /\ hist[c].failure.attempt = 1
    /\ pc[c] = "backoff"
    /\ RETRIES >= 2

\* C24: every POST attempt of a call carries the X-Request-Id drawn once when
\* the call entered make_api_request, and POSTs of different calls carry
\* different ones.
C24_OneRequestIdPerCall ==
  /\ rids = started
  /\ \A c \in Calls : pc[c] # "idle" => frame[c].rid \in 1..rids
  /\ \A p \in sent : \A q \in sent : (p.call = q.call) <=> (p.rid = q.rid)

\* C24 witness: two attempts of the first call and one of the second have gone out
C24_Witness ==
  /\ \E p \in sent : \E q \in sent : p.call = 1 /\ q.call = 2 /\ p.rid # q.rid
  /\ \E c \in Calls : frame[c].call = 2 /\ hist[c].posts = 2

\* the call ended with what its POST attempts produced: the parsed body of a
\* 2xx response, or the handling of the exception the POST attempts raised
EndedByPost(c) ==
  /\ hist[c].posts >= 1
  /\ hist[c].ended = hist[c].posts
  /\ \/ /\ Got2xx(c)
        /\ hist[c].raised = NoExc
        /\ outcome[c] = SuccessResult(json_loads(hist[c].response.text))
     \/ /\ hist[c].raised.attempt = hist[c].posts
        /\ outcome[c] = Handle(frame[c].fn, frame[c].arg, frame[c].payload, hist[c].raised)

\* C25: the DNS log comes before the first POST of the process, and a failed
\* resolution or host extraction neither prevents the POST nor fails the call.
C25_DnsNeverFailsRequest ==
  /\ sent # {} => DNS_LOGGED
  /\ \A c \in Calls :
       /\ pc[c] # "idle" => hist[c].dns # "none" /\ DNS_LOGGED
       /\ hist[c].dns \in {"failed", "no_host"} =>
            /\ pc[c] \in {"preflight", "post", "backoff", "done"}
            /\ Done(c) => EndedByPost(c)

\* C25 witness: calls whose DNS step failed, one ended in success and one
\* where the host could not be extracted was answered too
C25_Witness ==
  \E c \in Calls : hist[c].dns = "no_host" /\ Succeeded(c) /\ hist[c].posts = 2

\* C26: however the preflight ends (a response of any status, an exception,
\* its own timeout), the POST is made and the call ends with what the POST
\* attempts produced.
C26_PreflightNeverChangesOutcome ==
  \A c \in Calls :
    /\ pc[c] \in {"post", "backoff", "done"} =>
         hist[c].preflight \in PreflightEnds /\ hist[c].posts >= 1
    /\ Done(c) => EndedByPost(c)

\* C26 witness: the preflight raised and the call succeeded all the same
C26_Witness ==
  \E c \in Calls : hist[c].preflight = "raised" /\ Succeeded(c)

\* the state of the Query Executor of a call, from its position: the payload is
\* built in the step that leaves Idle, and the whole of make_api_request
\* (preflight, POST attempts, waits) is Awaiting Transport
ExecutorState(p) ==
  CASE p = "idle" -> "Idle"
    [] p \in {"preflight", "post", "backoff"} -> "Awaiting Transport"
    [] p = "done" -> "Terminal"

\* C27: a tool call awaits make_api_request exactly once: it goes from Idle to
\* Awaiting Transport, from there to a terminal outcome, and from a terminal
\* outcome only back to Idle, never to Awaiting Transport again.
C27_ExecutorSingleShot ==
  [][\A c \in Calls :
       LET s == ExecutorState(pc[c])
           t == ExecutorState(pc'[c])
       IN  /\ s = "Idle" => t \in {"Idle", "Awaiting Transport"}
           /\ s = "Awaiting Transport" => t \in {"Awaiting Transport", "Terminal"}
           /\ s = "Terminal" => t \in {"Terminal", "Idle"}
           /\ (s # "Idle" /\ t # "Idle") =>
                frame'[c].call = frame[c].call /\ frame'[c].rid = frame[c].rid
           /\ (s = "Idle" /\ t # "Idle") => frame'[c].rid = rids'
           /\ rids' - rids = Cardinality({d \in Calls : pc[d] = "idle" /\ pc'[d] # "idle"})]_vars

\* C27 witness: a call that ended in a transport failure after all its attempts
C27_Witness ==
  \E c \in Calls :
    /\ ReturnedFailure(c)
    /\ hist[c].raised.cls = "ConnectError"
    /\ hist[c].posts = 3
    /\ frame[c].call = 2

\* make_api_request returned the parsed body of the 2xx response
ReturnedParsedBody(c) ==
  /\ Got2xx(c)
  /\ JsonDecodable(hist[c].response.text)
  /\ hist[c].raised = NoExc
  /\ outcome[c] = SuccessResult(json_loads(hist[c].response.text))

\* make_api_request raised the failure that ended the retry loop, which the
\* tool then handled
RaisedLoopFailure(c) ==
  /\ hist[c].failure # NoExc
  /\ hist[c].failure.attempt = hist[c].posts
  /\ hist[c].raised = hist[c].failure
  /\ ~Retryable(hist[c].failure) \/ Exhausted(hist[c].posts, RETRIES)
  /\ outcome[c] = Handle(frame[c].fn, frame[c].arg, frame[c].payload, hist[c].failure)

\* make_api_request raised the decoding error of a 2xx body that is not JSON
RaisedDecodeError(c) ==
  /\ Got2xx(c)
  /\ ~JsonDecodable(hist[c].response.text)
  /\ hist[c].raised = Exc("JSONDecodeError", <<"Expecting value">>, hist[c].posts)
  /\ outcome[c] = Handle(frame[c].fn, frame[c].arg, frame[c].payload, hist[c].raised)

\* C28 as stated: make_api_request returns the parsed JSON body of a 2xx
\* response or raises the very failure that ended the retry loop.
C28_ReturnsOrRaisesLoopFailure ==
  \A c \in Calls : Done(c) => ReturnedParsedBody(c) \/ RaisedLoopFailure(c)

\* C28 amended: make_api_request returns the parsed JSON body of a 2xx
\* response, or raises the very failure that ended the retry loop, or raises
\* the decoding error of a 2xx body that is not JSON; it never turns a failure
\* into a return value.
C28_ReturnsOrRaises ==
  \A c \in Calls :
    Done(c) => ReturnedParsedBody(c) \/ RaisedLoopFailure(c) \/ RaisedDecodeError(c)

\* C28 witness: the connectivity failure of the last attempt left
\* make_api_request after the retries were used up
C28_Witness ==
  \E c \in Calls :
    /\ Done(c)
    /\ RaisedLoopFailure(c)
    /\ hist[c].raised.cls = "PoolTimeout" \/ hist[c].raised.cls = "RemoteProtocolError"
    /\ hist[c].posts = 2

\* the six connectivity tags
ConnectivityTags == {PhaseTag(k) : k \in RetryClasses}

\* the phase of the failure dict of call c
PhaseOf(c) == outcome[c].value.dict.request_details.dict.phase

\* C29: the phase of a non-HTTP failure is the tag of its kind for the six
\* retryable kinds and a generic tag (the kind's own name, none of the six
\* tags) for every other kind; the six tags are pairwise distinct.
C29_PhaseByKind ==
  /\ Cardinality(ConnectivityTags) = 6
  /\ \A c \in Calls :
       NonHttpFailure(c) =>
         /\ outcome[c].kind = "return"
         /\ outcome[c].via = "exception"
         /\ IF hist[c].raised.cls \in RetryClasses
            THEN PhaseOf(c) = PyStr(<<PhaseTag(hist[c].raised.cls)>>)
            ELSE /\ PhaseOf(c) = PyStr(<<hist[c].raised.cls>>)
                 /\ hist[c].raised.cls \notin ConnectivityTags
         /\ \A d \in Calls :
              (NonHttpFailure(d) /\ PhaseOf(d) = PhaseOf(c)) =>
                hist[d].raised.cls = hist[c].raised.cls

\* C29 witness: a protocol error ended a call with its own tag
C29_Witness ==
  \E c \in Calls :
    /\ NonHttpFailure(c)
    /\ hist[c].raised.cls = "RemoteProtocolError"
    /\ PhaseOf(c) = PyStr(<<"protocol_error">>)

\* C30: a read timeout raised after the response has started streaming is not
\* followed by another POST attempt of the call.
C30_NoPostAfterMidBodyReadTimeout ==
  [][\A c \in Calls :
       (hist[c].failure.cls = "ReadTimeout" /\ hist[c].midbody) =>
         hist'[c].posts <= hist[c].posts]_vars

\* the module-level names of the program other than the one-shot DNS flag, and
\* the local variables of the coroutine of call c
ModuleLevel == <<RETRIES, BACKOFF_BASE_S, MAX_CONNECTIONS, environ, HTTP, clients>>
Locals(c) == <<attempt[c], backoff[c], frame[c]>>

\* a step changes the locals of one call at most
LocalsStayLocal == Cardinality({c \in Calls : Locals(c)' # Locals(c)}) <= 1

\* C31 as stated: a step of a call changes that call's attempt counter, backoff,
\* request id and payload and the connection pool, and writes no module-level
\* variable.
C31_NoSharedWrite ==
  [][/\ LocalsStayLocal
     /\ ModuleLevel' = ModuleLevel
     /\ DNS_LOGGED' = DNS_LOGGED]_vars

\* C31 amended: a step of a call changes that call's attempt counter, backoff,
\* request id and payload and the connection pool; the only module-level
\* variable a call writes is the one-shot DNS flag, which only goes from unset
\* to set.
C31_OnlyDnsFlagWritten ==
  [][/\ LocalsStayLocal
     /\ ModuleLevel' = ModuleLevel
     /\ DNS_LOGGED => DNS_LOGGED']_vars

\* C31 witness: two calls in flight at different attempts, each with its own
\* request id, after the flag was set
C31_Witness ==
  /\ DNS_LOGGED
  /\ \E c \in Calls : \E d \in Calls :
       /\ pc[c] = "post" /\ attempt[c] = 2
       /\ pc[d] = "post" /\ attempt[d] = 1
       /\ frame[c].rid # frame[d].rid

\* the DNS step of call c runs in this step (the host is cut out of the base
\* URL and, if there is one, resolved)
DnsStepRuns(c) ==
  /\ hist[c].dns = "none"
  /\ hist'[c].dns \in {"resolved", "failed", "no_host"}

\* C32: the DNS step runs only in a step that finds the flag unset and leaves it
\* set, and the flag is never unset again: so it runs at most once per process,
\* whatever its result and however the calls interleave.
C32_DnsAtMostOnce ==
  [][/\ DNS_LOGGED => DNS_LOGGED'
     /\ \A c \in Calls : DnsStepRuns(c) => ~DNS_LOGGED /\ DNS_LOGGED'
     /\ Cardinality({c \in Calls : DnsStepRuns(c)}) <= 1]_vars

\* C32 witness: the resolution failed for a call that is still in flight, and a
\* call that started after it skipped the DNS step
C32_Witness ==
  \E c \in Calls : \E d \in Calls :
    /\ hist[c].dns = "failed" /\ pc[c] = "post"
    /\ hist[d].dns = "skipped" /\ pc[d] = "post"

\* C33: a call that has left the preflight has made a POST; with a retry count
\* of 0 or less it makes exactly one and never waits; a call that ends with a
\* connectivity failure has made max(1, N) attempts.
C33_AtLeastOneAttempt ==
  \A c \in Calls :
    /\ pc[c] \in {"post", "backoff", "done"} => hist[c].posts >= 1
    /\ (RETRIES <= 0 /\ pc[c] # "idle") =>
         /\ hist[c].posts <= 1
         /\ hist[c].waited = 0
         /\ pc[c] # "backoff"
    /\ ExhaustedRetries(c) => hist[c].posts = MaxOf(1, RETRIES)

\* C33 witness: with a negative retry count the one attempt failed to connect
\* and the call ended without a wait
C33_Witness ==
  \E c \in Calls :
    /\ RETRIES = -1
    /\ ExhaustedRetries(c)
    /\ hist[c].raised.cls = "ConnectError"
    /\ hist[c].posts = 1
    /\ hist[c].waited = 0

\* the n-th call of the process is in flight / has ended
InFlight(n) == \E c \in Calls : frame[c].call = n
Ended(n) == \E c \in Calls : frame[c].call = n /\ Done(c)
EndedWithResult(n) ==
  \E c \in Calls : frame[c].call = n /\ Done(c) /\ outcome[c].kind = "return"

\* every call ends, by a return or by an exception, after at most
\* max(1, RETRIES) attempts
CallsEnd ==
  /\ \A n \in 1..MaxStarted : InFlight(n) ~> Ended(n)
  /\ [](\A c \in Calls : attempt[c] <= MaxOf(1, RETRIES))

\* C34: when the preflight, every attempt and every backoff wait end, every
\* call eventually returns a Result.
C34_EveryCallReturnsResult ==
  \A n \in 1..MaxStarted : InFlight(n) ~> EndedWithResult(n)

\* the keys of the failure dict of call c and of its request_details
FailureKeys(c) == DOMAIN outcome[c].value.dict
DetailKeys(c) == DOMAIN outcome[c].value.dict.request_details.dict
TransportShaped(c) == "exception_type" \in FailureKeys(c) \/ "phase" \in DetailKeys(c)

\* C35: no failure dict has http_status together with exception_type or
\* request_details.phase, and the failure dict returned for a non-2xx response
\* has neither exception_type nor phase, however many connectivity failures
\* came before that response.
C35_ShapesExclusive ==
  \A c \in Calls :
    ReturnedFailure(c) =>
      /\ ~("http_status" \in FailureKeys(c) /\ TransportShaped(c))
      /\ GotRejected(c) =>
           /\ ~TransportShaped(c)
           /\ outcome[c] = HTTPStatusHandler(frame[c].fn, frame[c].arg, frame[c].payload,
                                             HTTPStatusError(hist[c].response, hist[c].posts))

\* C35 witness: two connectivity failures, then a non-2xx response, and the
\* failure dict has http_status
C35_Witness ==
  \E c \in Calls :
    /\ GotRejected(c)
    /\ ReturnedFailure(c)
    /\ hist[c].posts = 3
    /\ hist[c].waited = 3 * BACKOFF_BASE_S
    /\ "http_status" \in FailureKeys(c)

\* the POST of call c got a 2xx response whose body is not JSON
UndecodableSuccess(c) ==
  /\ is_success(hist[c].response.status_code)
  /\ ~JsonDecodable(hist[c].response.text)

\* C36: a 2xx response whose body cannot be decoded ends the call at once, also
\* when attempts remain, with a failure dict that has exception_type, a phase
\* that is none of the connectivity tags, and no http_status.
C36_UndecodableBodyFails ==
  \A c \in Calls :
    UndecodableSuccess(c) =>
      /\ Done(c)
      /\ hist[c].ended = hist[c].posts
      /\ ReturnedFailure(c)
      /\ outcome[c].via = "exception"
      /\ outcome[c].value.dict.exception_type =
           PyStr(<<"json.decoder", ".", "JSONDecodeError">>)
      /\ PhaseOf(c) = PyStr(<<"JSONDecodeError">>)
      /\ "JSONDecodeError" \notin ConnectivityTags
      /\ "http_status" \notin FailureKeys(c)

\* C36 witness: the first of up to four attempts got a 200 response with an
\* HTML body
C36_Witness ==
  \E c \in Calls :
    /\ UndecodableSuccess(c)
    /\ hist[c].response.text = <<"<html>">>
    /\ hist[c].posts = 1
    /\ RETRIES = 4
    /\ ReturnedFailure(c)

\* C37: a call starts with its preflight and sends no POST before the preflight
\* has ended; the first POST goes out in the step that ends the preflight, every
\* later POST after a backoff wait, and a call never goes back to the preflight.
C37_PreflightOncePerCall ==
  [][\A c \in Calls :
       /\ (pc[c] = "idle" /\ pc'[c] # "idle") =>
            pc'[c] = "preflight" /\ hist'[c].posts = 0
       /\ pc'[c] = "preflight" => pc[c] \in {"idle", "preflight"}
       /\ (hist[c].posts = 0 /\ hist'[c].posts > 0) =>
            /\ pc[c] = "preflight"
            /\ hist'[c].posts = 1
            /\ hist'[c].preflight \in PreflightEnds
       /\ (hist[c].posts >= 1 /\ hist'[c].posts > hist[c].posts) =>
            /\ pc[c] = "backoff"
            /\ hist'[c].preflight = hist[c].preflight]_vars

\* C37 witness: the third POST of a call whose one preflight had failed
C37_Witness ==
  \E c \in Calls :
    /\ pc[c] = "post"
    /\ hist[c].posts = 3
    /\ hist[c].preflight = "raised"

\* the string value v contains the credential
Mentions(v, key) ==
  /\ v.ty = "str"
  /\ \E i \in 1..Len(v.str) : \E j \in 1..Len(key.str) : v.str[i] = key.str[j]

\* the request_details of the failure dict of call c, without the phase
DetailsOf(c) ==
  [f \in DetailKeys(c) \ {"phase"} |-> outcome[c].value.dict.request_details.dict[f]]

\* C38: the failure dict of a call is the same whichever credential the process
\* runs with: its request_details are those computed with any credential, with
\* the boolean api_key_configured, and no other field is or contains the
\* credential; a success is the decoded body; the credential is sent in the
\* Authorization header.
C38_ResultIgnoresCredential ==
  /\ \A p \in sent : p.authorization = Authorization(API_KEY)
  /\ \A c \in Calls :
       /\ Succeeded(c) => outcome[c] = SuccessResult(json_loads(hist[c].response.text))
       /\ ReturnedFailure(c) =>
            \A key \in Credentials :
              /\ DetailsOf(c) = common_request_details_with(key, "query", frame[c].payload)
              /\ DetailsOf(c).api_key_configured = PyBool(TRUE)
              /\ \A f \in FailureKeys(c) \ {"request_details"} :
                   /\ outcome[c].value.dict[f] # key
                   /\ ~Mentions(outcome[c].value.dict[f], key)
              /\ \A f \in DOMAIN frame[c].payload :
                   frame[c].payload[f] # key /\ ~Mentions(frame[c].payload[f], key)

\* C38 witness: a failure dict with request_details after the credential went
\* out in the header of two POSTs
C38_Witness ==
  \E c \in Calls :
    /\ ReturnedFailure(c)
    /\ hist[c].posts = 2
    /\ outcome[c].value.dict.request_details.dict.api_key_configured = PyBool(TRUE)
    /\ \E p \in sent : p.call = frame[c].call /\ p.authorization = <<"Bearer ", "key-a">>

\* C39: the payload of a call carries the integration_id argument when it is a
\* non-empty string, else the default that os.environ holds for the tool when
\* the call is made (if that is a non-empty string), else no integration_id; so
\* the empty string counts as not provided and a default changed between two
\* calls shows in the second.
C39_DefaultLookedUpAtCall ==
  [][\A c \in Calls :
       (pc[c] = "idle" /\ pc'[c] # "idle") =>
         LET p == frame'[c].payload
             given == frame'[c].integration_id
             default == environ[EnvName(frame'[c].fn)]
         IN  /\ Provided(given) =>
                  "integration_id" \in DOMAIN p /\ p["integration_id"] = given
             /\ (~Provided(given) /\ Provided(default)) =>
                  "integration_id" \in DOMAIN p /\ p["integration_id"] = default
             /\ (~Provided(given) /\ ~Provided(default)) =>
                  "integration_id" \notin DOMAIN p]_vars

\* C39 witness: two calls of the same tool in flight, neither with an
\* integration_id (the second was given the empty string); the default was
\* changed between them and each payload has the default of its time
C39_Witness ==
  \E c \in Calls : \E d \in Calls :
    /\ frame[c].call = 1 /\ frame[d].call = 2
    /\ frame[c].fn = "run_sql_query" /\ frame[d].fn = "run_sql_query"
    /\ frame[c].integration_id = PyNone
    /\ frame[d].integration_id = PyStr(<<>>)
    /\ "integration_id" \in DOMAIN frame[c].payload
    /\ "integration_id" \in DOMAIN frame[d].payload
    /\ frame[c].payload["integration_id"] = PyStr(<<"_TABLE_INTEGRATION_ID">>)
    /\ frame[d].payload["integration_id"] = PyStr(<<"int-2">>)

====
